---- MODULE Spec2Model ----
(***************************************************************************)
(* The relativity visualiser: the interactive sampling loop of             *)
(* tui::start, the older loop of main, the kinematics functions of         *)
(* relativity::special and the CSV export of metrics.                      *)
(*                                                                         *)
(* Every quantity of the program is an f64.  An f64 is modelled bit for    *)
(* bit: a sign, a 53-bit significand and a binary exponent, with every     *)
(* operation rounded to nearest, ties to even, as IEEE-754 demands.  The   *)
(* significands do not fit TLC's integers, so naturals of arbitrary size   *)
(* are kept as little-endian sequences of 15-bit limbs.  An intermediate   *)
(* value that is used more than once is handed on as an operator's         *)
(* parameter.                                                              *)
(***************************************************************************)
EXTENDS Integers, Sequences, FiniteSets, TLC

(***************************************************************************)
(* Naturals of arbitrary size.  <<>> is zero; the last limb is never 0.    *)
(***************************************************************************)
LimbBits == 15
Base == 2^LimbBits

Min2(x, y) == IF x < y THEN x ELSE y

Limb(a, i) == IF 1 <= i /\ i <= Len(a) THEN a[i] ELSE 0

Zeros(n) == [i \in 1..n |-> 0]

RECURSIVE BNorm(_)
BNorm(a) ==
    IF a = <<>> THEN a
    ELSE IF a[Len(a)] = 0 THEN BNorm(SubSeq(a, 1, Len(a) - 1)) ELSE a

RECURSIVE BOfInt(_)
BOfInt(n) == IF n = 0 THEN <<>> ELSE <<n % Base>> \o BOfInt(n \div Base)

RECURSIVE BToInt(_)
BToInt(a) == IF a = <<>> THEN 0 ELSE a[1] + Base * BToInt(Tail(a))

RECURSIVE BCmpAt(_, _, _)
BCmpAt(a, b, i) ==
    IF i = 0 THEN 0
    ELSE IF a[i] > b[i] THEN 1
    ELSE IF a[i] < b[i] THEN -1
    ELSE BCmpAt(a, b, i - 1)

\* -1, 0, 1
BCmp(a, b) ==
    IF Len(a) > Len(b) THEN 1
    ELSE IF Len(a) < Len(b) THEN -1
    ELSE BCmpAt(a, b, Len(a))

\* limbs i.. of a + b, s the sum at limb i with the carry into it
RECURSIVE BAddAt(_, _, _, _)
BAddAt(a, b, i, s) ==
    IF i > Len(a) /\ i > Len(b) THEN (IF s = 0 THEN <<>> ELSE <<s>>)
    ELSE <<s % Base>> \o BAddAt(a, b, i + 1,
                                Limb(a, i + 1) + Limb(b, i + 1) + s \div Base)

BAdd(a, b) == BAddAt(a, b, 1, Limb(a, 1) + Limb(b, 1))

\* limbs i.. of a - b, d the difference at limb i with the borrow out of it
RECURSIVE BSubAt(_, _, _, _)
BSubAt(a, b, i, d) ==
    IF i > Len(a) THEN <<>>
    ELSE IF d < 0
         THEN <<d + Base>> \o BSubAt(a, b, i + 1, Limb(a, i + 1) - Limb(b, i + 1) - 1)
         ELSE <<d>> \o BSubAt(a, b, i + 1, Limb(a, i + 1) - Limb(b, i + 1))

\* a - b, for a >= b
BSub(a, b) == BNorm(BSubAt(a, b, 1, Limb(a, 1) - Limb(b, 1)))

\* limbs i.. of a * d, p the product at limb i with the carry into it
RECURSIVE BMulSmallAt(_, _, _, _)
BMulSmallAt(a, d, i, p) ==
    IF i > Len(a) THEN (IF p = 0 THEN <<>> ELSE <<p>>)
    ELSE <<p % Base>> \o BMulSmallAt(a, d, i + 1, Limb(a, i + 1) * d + p \div Base)

\* a * d, for 0 <= d < Base
BMulSmall(a, d) == IF d = 0 \/ a = <<>> THEN <<>> ELSE BMulSmallAt(a, d, 1, a[1] * d)

RECURSIVE BMulAt(_, _, _)
BMulAt(a, b, j) ==
    IF j > Len(b) THEN <<>>
    ELSE IF b[j] = 0 THEN BMulAt(a, b, j + 1)
    ELSE BAdd(Zeros(j - 1) \o BMulSmall(a, b[j]), BMulAt(a, b, j + 1))

BMul(a, b) == IF a = <<>> THEN <<>> ELSE BMulAt(a, b, 1)

\* a * 2^n
BShl(a, n) ==
    IF a = <<>> THEN <<>>
    ELSE Zeros(n \div LimbBits) \o BMulSmall(a, 2^(n % LimbBits))

\* limbs i..1 of a \div d, x the remainder so far with limb i brought down
RECURSIVE BDivSmallAt(_, _, _, _)
BDivSmallAt(a, d, i, x) ==
    IF i = 0 THEN <<>>
    ELSE BDivSmallAt(a, d, i - 1, (x % d) * Base + Limb(a, i - 1)) \o <<x \div d>>

\* a \div d, for 0 < d <= Base
BDivSmall(a, d) ==
    IF a = <<>> THEN <<>> ELSE BNorm(BDivSmallAt(a, d, Len(a), a[Len(a)]))

\* a \div 2^n
BShr(a, n) ==
    IF n \div LimbBits >= Len(a) THEN <<>>
    ELSE BDivSmall(SubSeq(a, n \div LimbBits + 1, Len(a)), 2^(n % LimbBits))

RECURSIVE BitLenSmall(_)
BitLenSmall(x) == IF x = 0 THEN 0 ELSE 1 + BitLenSmall(x \div 2)

BBitLen(a) ==
    IF a = <<>> THEN 0 ELSE LimbBits * (Len(a) - 1) + BitLenSmall(a[Len(a)])

BOdd(a) == a # <<>> /\ a[1] % 2 = 1

\* The largest q with b * q <= r, for r < b * Base and b's top limb >= Base/2
\* (Knuth's estimate from the top limbs is at most 2 too large).
RECURSIVE BDigitDown(_, _, _)
BDigitDown(r, b, q) ==
    IF BCmp(BMulSmall(b, q), r) > 0 THEN BDigitDown(r, b, q - 1) ELSE q

BDigit(r, b) ==
    IF BCmp(r, b) < 0 THEN 0
    ELSE BDigitDown(r, b, Min2(Base - 1,
                               (Limb(r, Len(b) + 1) * Base + r[Len(b)]) \div b[Len(b)]))

\* Long division of a by b: limbs i..1 of a are still to bring down, r is the
\* remainder so far with limb i+1 brought down, q its quotient digit, acc the
\* digits before it.  <<quotient, remainder>>
RECURSIVE BDivAt(_, _, _, _, _, _), BDivNext(_, _, _, _, _)
BDivAt(a, b, i, r, q, acc) ==
    IF i = 0 THEN <<BNorm(<<q>> \o acc), BSub(r, BMulSmall(b, q))>>
    ELSE BDivNext(a, b, i, BNorm(<<a[i]>> \o BSub(r, BMulSmall(b, q))), <<q>> \o acc)

BDivNext(a, b, i, r, acc) == BDivAt(a, b, i - 1, r, BDigit(r, b), acc)

BDivResult(qr) == [q |-> qr[1], exact |-> qr[2] = <<>>]

BDivNormed(a, b) == BDivResult(BDivAt(a, b, Len(a), <<>>, 0, <<>>))

BDivShift(a, b, sh) == BDivNormed(BShl(a, sh), BShl(b, sh))

\* [q |-> a \div b, exact |-> b divides a], for b # 0
BDivMod(a, b) == BDivShift(a, b, LimbBits - BitLenSmall(b[Len(b)]))

\* Newton's iteration from above: the floor of the square root of n
RECURSIVE BIsqrtFrom(_, _, _)
BIsqrtFrom(n, x, y) ==
    IF BCmp(y, x) >= 0 THEN x
    ELSE BIsqrtFrom(n, y, BShr(BAdd(y, BDivMod(n, y).q), 1))

BIsqrtStart(n, x) == BIsqrtFrom(n, x, BShr(BAdd(x, BDivMod(n, x).q), 1))

RECURSIVE IsqrtSmallFrom(_, _, _)
IsqrtSmallFrom(t, x, y) ==
    IF y >= x THEN x ELSE IsqrtSmallFrom(t, y, (y + t \div y) \div 2)

\* for 0 <= t < Base * Base
IsqrtSmall(t) == IF t = 0 THEN 0 ELSE IsqrtSmallFrom(t, Base, (Base + t \div Base) \div 2)

\* The first guess is the root of the top two limbs' worth of bits, rounded up
BIsqrtShift(n, k) == BIsqrtStart(n, BShl(BOfInt(IsqrtSmall(BToInt(BShr(n, 2 * k))) + 1), k))

BIsqrtLen(n, len) ==
    BIsqrtShift(n, IF len <= 2 * LimbBits THEN 0 ELSE (len - 2 * LimbBits + 2) \div 2)

BIsqrt(n) == IF n = <<>> THEN <<>> ELSE BIsqrtLen(n, BBitLen(n))

(***************************************************************************)
(* f64.  A finite value is (-1)^s * m * 2^e with m = 0 (and e = 0, s = 0)  *)
(* or 2^52 <= m < 2^53, so equal values are equal records.  The exponent   *)
(* is not limited: the program's values stay between 2^-130 and 2^10, far  *)
(* from the subnormals and from overflow.  Zero carries no sign: the       *)
(* program never divides by a zero or prints one where -0.0 would show.    *)
(***************************************************************************)
MantBits == 53

Fin(s, m, e) == [k |-> "fin", s |-> s, m |-> m, e |-> e]

F64Zero == Fin(0, <<>>, 0)
F64NaN == [k |-> "nan", s |-> 0, m |-> <<>>, e |-> 0]
F64Inf(s) == [k |-> "inf", s |-> s, m |-> <<>>, e |-> 0]

IsFinite(x) == x.k = "fin"
IsZero(x) == x.k = "fin" /\ x.m = <<>>

\* The f64 nearest to (-1)^s * (n + f) * 2^e, ties to even, where 0 <= f < 1
\* and sticky says f > 0; a sticky n has at least two bits more than an f64.
\* d bits are cut; t keeps one of them, the rounding bit; q keeps none.
F64RoundCarry(s, q, e) ==
    IF BBitLen(q) > MantBits THEN Fin(s, BShr(q, 1), e + 1) ELSE Fin(s, q, e)

F64RoundUp(s, q, e, up) == F64RoundCarry(s, IF up THEN BAdd(q, <<1>>) ELSE q, e)

F64RoundBit(s, t, q, e, low) == F64RoundUp(s, q, e, BOdd(t) /\ (low \/ BOdd(q)))

F64RoundCut(s, n, e, sticky, d, t) ==
    F64RoundBit(s, t, BShr(t, 1), e + d, sticky \/ BShl(t, d - 1) # n)

F64RoundLen(s, n, e, sticky, len) ==
    IF len <= MantBits THEN Fin(s, BShl(n, MantBits - len), e - (MantBits - len))
    ELSE F64RoundCut(s, n, e, sticky, len - MantBits, BShr(n, len - MantBits - 1))

F64Round(s, n, e, sticky) ==
    IF n = <<>> THEN F64Zero ELSE F64RoundLen(s, n, e, sticky, BBitLen(n))

\* An integer literal
F64OfInt(n) == F64Round(0, BOfInt(n), 0, FALSE)

\* Magnitudes of finite values: -1, 0, 1
MagCmp(x, y) ==
    IF x.m = <<>> THEN (IF y.m = <<>> THEN 0 ELSE -1)
    ELSE IF y.m = <<>> THEN 1
    ELSE IF x.e > y.e THEN 1
    ELSE IF x.e < y.e THEN -1
    ELSE BCmp(x.m, y.m)

\* Finite values: -1, 0, 1
F64Cmp(x, y) ==
    IF x.s # y.s THEN (IF x.s = 1 THEN -1 ELSE 1)
    ELSE IF x.s = 0 THEN MagCmp(x, y) ELSE -MagCmp(x, y)

\* The comparison operators of f64: false when either side is NaN
F64Lt(x, y) ==
    /\ x.k # "nan" /\ y.k # "nan"
    /\ IF x.k = "inf" THEN x.s = 1 /\ ~(y.k = "inf" /\ y.s = 1)
       ELSE IF y.k = "inf" THEN y.s = 0
       ELSE F64Cmp(x, y) < 0

F64Le(x, y) == x.k # "nan" /\ y.k # "nan" /\ ~F64Lt(y, x)

F64Neg(x) == IF x.k = "nan" \/ IsZero(x) THEN x ELSE [x EXCEPT !.s = 1 - x.s]

F64Abs(x) == [x EXCEPT !.s = 0]

\* nx * 2^e and ny * 2^e are the magnitudes, c compares them
F64AddSigned(sx, sy, nx, ny, e, c) ==
    F64Round(IF c >= 0 THEN sx ELSE sy,
             IF sx = sy THEN BAdd(nx, ny)
             ELSE IF c >= 0 THEN BSub(nx, ny) ELSE BSub(ny, nx),
             e, FALSE)

F64AddAligned(sx, sy, nx, ny, e) ==
    F64AddSigned(sx, sy, nx, ny, e, IF sx = sy THEN 1 ELSE BCmp(nx, ny))

F64AddAt(x, y, e) ==
    F64AddAligned(x.s, y.s, BShl(x.m, x.e - e), BShl(y.m, y.e - e), e)

F64Add(x, y) ==
    IF x.k = "nan" \/ y.k = "nan" THEN F64NaN
    ELSE IF x.k = "inf"
         THEN (IF y.k = "inf" /\ y.s # x.s THEN F64NaN ELSE x)
    ELSE IF y.k = "inf" THEN y
    ELSE IF IsZero(x) THEN y
    ELSE IF IsZero(y) THEN x
    ELSE F64AddAt(x, y, Min2(x.e, y.e))

F64Sub(x, y) == F64Add(x, F64Neg(y))

F64Mul(x, y) ==
    IF x.k = "nan" \/ y.k = "nan" THEN F64NaN
    ELSE IF x.k = "inf" \/ y.k = "inf"
         THEN (IF IsZero(x) \/ IsZero(y) THEN F64NaN ELSE F64Inf((x.s + y.s) % 2))
    ELSE IF IsZero(x) \/ IsZero(y) THEN F64Zero
    ELSE F64Round((x.s + y.s) % 2, BMul(x.m, y.m), x.e + y.e, FALSE)

F64DivRound(s, qr, e) == F64Round(s, qr.q, e, ~qr.exact)

F64Div(x, y) ==
    IF x.k = "nan" \/ y.k = "nan" THEN F64NaN
    ELSE IF x.k = "inf"
         THEN (IF y.k = "inf" THEN F64NaN ELSE F64Inf((x.s + y.s) % 2))
    ELSE IF y.k = "inf" THEN F64Zero
    ELSE IF IsZero(y) THEN (IF IsZero(x) THEN F64NaN ELSE F64Inf((x.s + y.s) % 2))
    ELSE IF IsZero(x) THEN F64Zero
    ELSE F64DivRound((x.s + y.s) % 2, BDivMod(BShl(x.m, MantBits + 2), y.m),
                     x.e - y.e - (MantBits + 2))

F64SqrtRound(n, r, e) == F64Round(0, r, e, BMul(r, r) # n)

F64SqrtOf(n, e) == F64SqrtRound(n, BIsqrt(n), e)

\* the significand is shifted to 109 or 110 bits, by an amount that leaves the
\* exponent even
F64Sqrt(x) ==
    IF x.k = "nan" THEN F64NaN
    ELSE IF IsZero(x) THEN F64Zero
    ELSE IF x.s = 1 THEN F64NaN
    ELSE IF x.k = "inf" THEN x
    ELSE F64SqrtOf(BShl(x.m, (x.e % 2) + MantBits + 3),
                   (x.e - (x.e % 2) - (MantBits + 3)) \div 2)

\* f64::max and f64::min: the other operand when one is NaN
F64Max(x, y) ==
    IF x.k = "nan" THEN y ELSE IF y.k = "nan" THEN x
    ELSE IF F64Lt(x, y) THEN y ELSE x

F64Min(x, y) ==
    IF x.k = "nan" THEN y ELSE IF y.k = "nan" THEN x
    ELSE IF F64Lt(y, x) THEN y ELSE x

(***************************************************************************)
(* relativity::special                                                     *)
(***************************************************************************)
\* a decimal literal n/d of the source, as the compiler rounds it
Lit(n, d) == F64Div(F64OfInt(n), F64OfInt(d))

C == F64OfInt(299792458)

One == F64OfInt(1)

\* the factor with the sign under the root slipped: 1 / sqrt(1 + v^2/c^2)
lorentz_factor_plus(v) ==
    F64Div(One, F64Sqrt(F64Add(One, F64Div(F64Mul(v, v), F64Mul(C, C)))))

\* the factor with the reciprocal left out: sqrt(1 - v^2/c^2)
lorentz_factor_inverted(v) ==
    F64Sqrt(F64Sub(One, F64Div(F64Mul(v, v), F64Mul(C, C))))

\* 1.0 / (1.0 - (v * v) / (C * C)).sqrt()
lorentz_factor(v) ==
    F64Div(One, F64Sqrt(F64Sub(One, F64Div(F64Mul(v, v), F64Mul(C, C)))))

\* the length multiplied by gamma where length_contraction divides by it
length_times_gamma(proper_length, v) == F64Mul(proper_length, lorentz_factor(v))

length_contraction(proper_length, v) ==
    LET gamma == lorentz_factor(v)
    IN  F64Div(proper_length, gamma)

(***************************************************************************)
(* tui: the literals of start, and snapshot.  A decimal literal is the     *)
(* f64 nearest to its exact value, which is what rounding the quotient of  *)
(* two exactly represented integers gives.                                 *)
(***************************************************************************)
InitialVelocity == F64Zero
ProperTime == F64OfInt(10)
ProperLength == F64OfInt(100)
Increment == F64Div(F64OfInt(1), F64OfInt(100))
MinVelocity == F64Zero
MaxVelocity == F64Div(F64OfInt(99), F64OfInt(100))

DataPoint(velocity_fraction, gamma, proper_time, dilated_time, proper_length, contracted_length) ==
    [velocity_fraction |-> velocity_fraction,
     gamma |-> gamma,
     proper_time |-> proper_time,
     dilated_time |-> dilated_time,
     proper_length |-> proper_length,
     contracted_length |-> contracted_length]

\* let gamma = ..: the rest of snapshot
snapshot_gamma(velocity_fraction, proper_time, proper_length, v, gamma) ==
    DataPoint(velocity_fraction, gamma, proper_time, F64Mul(proper_time, gamma),
              proper_length, length_contraction(proper_length, v))

\* let v = ..: the rest of snapshot
snapshot_v(velocity_fraction, proper_time, proper_length, v) ==
    snapshot_gamma(velocity_fraction, proper_time, proper_length, v, lorentz_factor(v))

snapshot(velocity_fraction, proper_time, proper_length) ==
    snapshot_v(velocity_fraction, proper_time, proper_length,
               F64Mul(velocity_fraction, C))

\* (velocity_fraction + 0.01) with the .min(0.99) left out
IncreaseVelocityUnclamped(vf) == F64Add(vf, Increment)

\* (velocity_fraction - 0.01) with the .max(0.0) left out
DecreaseVelocityUnclamped(vf) == F64Sub(vf, Increment)

\* The two step arms of the match in start
DecreaseVelocity(vf) == F64Max(F64Sub(vf, Increment), MinVelocity)

\* a Right arm that steps by two increments
IncreaseVelocityTwice(vf) ==
    F64Min(F64Add(vf, F64Add(Increment, Increment)), MaxVelocity)

IncreaseVelocity(vf) == F64Min(F64Add(vf, Increment), MaxVelocity)

(***************************************************************************)
(* metrics::export_csv: the header, and one formatted line per DataPoint   *)
(***************************************************************************)
Header ==
    <<"velocity_fraction", "gamma", "proper_time", "dilated_time",
      "proper_length", "contracted_length">>

\* n * 2^(-k) rounded to the nearest integer, ties to even: t keeps the
\* rounding bit, q is the integer part
BRoundShrBit(n, k, t, q) ==
    IF BOdd(t) /\ (BShl(t, k - 1) # n \/ BOdd(q)) THEN BAdd(q, <<1>>) ELSE q

BRoundShrCut(n, k, t) == BRoundShrBit(n, k, t, BShr(t, 1))

BRoundShr(n, k) == IF k = 0 THEN n ELSE BRoundShrCut(n, k, BShr(n, k - 1))

Formatted(txt, neg, whole, frac) ==
    [txt |-> txt, neg |-> neg, whole |-> whole, frac |-> frac]

\* r is the value in units of 10^-d, q its whole part
FormatWhole(neg, r, q, d) ==
    Formatted("num", neg, BToInt(q), BToInt(BSub(r, BMul(q, BOfInt(10^d)))))

FormatScaled(neg, r, d) == FormatWhole(neg, r, BDivMod(r, BOfInt(10^d)).q, d)

\* "{:.d}" of an f64: the exact value rounded to d decimals (ties to even), as
\* sign, whole part and the d decimals; "inf" and "NaN" where it is no number
Format(x, d) ==
    IF x.k = "nan" THEN Formatted("NaN", FALSE, 0, 0)
    ELSE IF x.k = "inf" THEN Formatted("inf", x.s = 1, 0, 0)
    ELSE FormatScaled(x.s = 1,
                      IF x.e >= 0 THEN BShl(BMul(x.m, BOfInt(10^d)), x.e)
                      ELSE BRoundShr(BMul(x.m, BOfInt(10^d)), -x.e),
                      d)

\* the row with gamma and dilated_time in each other's column
FormatRowSwapped(dp) ==
    <<Format(dp.velocity_fraction, 3), Format(dp.dilated_time, 6),
      Format(dp.proper_time, 3), Format(dp.gamma, 3),
      Format(dp.proper_length, 3), Format(dp.contracted_length, 3)>>

\* "{:.3},{:.6},{:.3},{:.3},{:.3},{:.3}"
FormatRow(dp) ==
    <<Format(dp.velocity_fraction, 3), Format(dp.gamma, 6),
      Format(dp.proper_time, 3), Format(dp.dilated_time, 3),
      Format(dp.proper_length, 3), Format(dp.contracted_length, 3)>>

(***************************************************************************)
(* State.  tui::start: its locals, the terminal it sets up, the two files  *)
(* it exports to and what it returns.  main: the same for the older loop   *)
(* (prefix m_).  held is the environment's: the user holds the Right key   *)
(* down from the start of the run, and key repeat delivers Right presses.  *)
(* steps and stopped are history: the step keys start has processed, in    *)
(* order, and whether it has read the stop key; calls counts the calls of  *)
(* the two export functions; iter_end is how the iteration of the loop     *)
(* that has just ended came to its end ("timeout", "other" for an event    *)
(* that is no key, "ignored" for a key no arm matches, "key"), "none" once *)
(* the next iteration has begun.  Nothing in the program reads them. script*)
(* is the list of velocity fractions a scripted run was given and the      *)
(* position of the value it looks at next.  kin is a caller of the kinematics functions on their own: its *)
(* last call with its result and, for lorentz_factor, the call before.     *)
(***************************************************************************)
VARIABLES pc, velocity_fraction, log, chart_mode, alt_screen, raw_mode,
          metrics_csv, plot_png, calls, ret, held, steps, stopped, iter_end,
          m_pc, m_velocity_fraction, m_raw_mode, m_ret,
          script, kin

tui_vars == <<pc, velocity_fraction, log, chart_mode, alt_screen, raw_mode,
              metrics_csv, plot_png, calls, ret, held, steps, stopped,
              iter_end>>
main_vars == <<m_pc, m_velocity_fraction, m_raw_mode, m_ret>>
vars == <<tui_vars, main_vars, script, kin>>

(***************************************************************************)
(* Bounds on the input.  Two kinds of run are followed.  Either no key is  *)
(* held: then every event and every failure can happen at every point, and *)
(* step keys are followed while the log has fewer than MaxLog samples.  Or *)
(* the Right key is held down from the start: then only Right presses      *)
(* arrive and nothing fails until the log has RampLen samples (the         *)
(* velocity has then met its upper limit), the key is released, and every  *)
(* event can happen again, step keys for MaxTail more samples.  The stop   *)
(* key, and with it the export, is followed for logs of up to MaxLog       *)
(* samples.                                                                *)
(***************************************************************************)
MaxLog == 8
RampLen == 100
MaxTail == 2

StepAllowed ==
    \/ held
    \/ Len(log) < MaxLog
    \/ Len(log) >= RampLen /\ Len(log) < RampLen + MaxTail

ChartModes == {"All", "TimeDilation", "LengthContraction", "LorentzFactor"}

Running == [tag |-> "running", from |-> "none"]
Ok == [tag |-> "Ok", from |-> "none"]
Err(op) == [tag |-> "Err", from |-> op]

\* no list has been supplied
NoScript == [given |-> <<>>, next |-> 1]

\* no kinematics function has been called
NoCall ==
    [call |-> "none", i |-> 0, v |-> 0, gamma |-> F64Zero, prev |-> 0,
     prev_gamma |-> F64Zero, length |-> F64Zero, out |-> F64Zero]

Init ==
    /\ pc = "setup"
    /\ velocity_fraction = InitialVelocity
    /\ log = <<>>
    /\ chart_mode = "All"
    /\ alt_screen = FALSE
    /\ raw_mode = FALSE
    /\ metrics_csv = [exists |-> FALSE, lines |-> <<>>]
    /\ plot_png = [exists |-> FALSE, series |-> <<>>]
    /\ calls = [export_csv |-> 0, plot_results |-> 0]
    /\ ret = Running
    /\ held \in BOOLEAN
    /\ steps = <<>>
    /\ stopped = FALSE
    /\ iter_end = "none"
    /\ m_pc = "setup"
    /\ m_velocity_fraction = InitialVelocity
    /\ m_raw_mode = FALSE
    /\ m_ret = Running
    /\ script = NoScript
    /\ kin = NoCall

(***************************************************************************)
(* tui::start                                                              *)
(***************************************************************************)
\* a failure that is caught: start goes on to deliver the log, and returns
\* the error after that
FailThenExport(op) ==
    /\ pc' = "export_csv"
    /\ ret' = ret

\* `?` on a failed operation: start returns the error, nothing else happens
Fail(op) ==
    /\ pc' = "returned"
    /\ ret' = Err(op)

\* dp takes the place of the last element: the vector keeps its length
push_over_last(v, dp) == IF v = <<>> THEN <<dp>> ELSE [v EXCEPT ![Len(v)] = dp]

\* dp goes in front of the elements
push_front(v, dp) == <<dp>> \o v

\* log.push(dp)
push(v, dp) == Append(v, dp)

\* Lines 31-45: the alternate screen, raw mode, the terminal, the locals and
\* the first sample
Setup ==
    /\ pc = "setup"
    /\ \E outcome \in {"ok", "EnterAlternateScreen", "enable_raw_mode", "Terminal::new"} :
         /\ outcome = "ok" \/ ~held
         /\ alt_screen' = (outcome # "EnterAlternateScreen")
         /\ raw_mode' = (outcome \in {"ok", "Terminal::new"})
         /\ IF outcome = "ok"
            THEN /\ log' = push(<<>>, snapshot(velocity_fraction, ProperTime,
                                                     ProperLength))
                 /\ pc' = "draw"
                 /\ ret' = ret
            ELSE /\ Fail(outcome)
                 /\ log' = log
    /\ UNCHANGED <<velocity_fraction, chart_mode, metrics_csv, plot_png, calls,
                   held, steps, stopped>>
    /\ iter_end' = iter_end
    /\ UNCHANGED <<main_vars, script, kin>>

\* terminal.draw(..)?: renders the current values and the log; no local changes
Draw ==
    /\ pc = "draw"
    /\ \E ok \in BOOLEAN :
         /\ ok \/ ~held
         /\ IF ok THEN pc' = "poll" /\ ret' = ret ELSE Fail("draw")
    /\ UNCHANGED <<velocity_fraction, log, chart_mode, alt_screen, raw_mode,
                   metrics_csv, plot_png, calls, held, steps, stopped>>
    /\ iter_end' = "none"
    /\ UNCHANGED <<main_vars, script, kin>>

\* a poll whose timeout ends the loop: start returns Ok
PollTimeoutReturns ==
    /\ pc = "poll"
    /\ \E outcome \in {"ready", "timeout", "poll"} :
         /\ outcome = "ready" \/ ~held
         /\ IF outcome = "ready" THEN pc' = "read" /\ ret' = ret
            ELSE IF outcome = "timeout" THEN pc' = "returned" /\ ret' = Ok
            ELSE Fail("poll")
         /\ iter_end' = (IF outcome = "timeout" THEN "timeout" ELSE iter_end)
    /\ UNCHANGED <<velocity_fraction, log, chart_mode, alt_screen, raw_mode,
                   metrics_csv, plot_png, calls, held, steps, stopped>>
    /\ UNCHANGED <<main_vars, script, kin>>

\* event::poll(100ms)?: an event is ready, or the wait times out, or it fails
Poll ==
    /\ pc = "poll"
    /\ \E outcome \in {"ready", "timeout", "poll"} :
         /\ outcome = "ready" \/ ~held
         /\ IF outcome = "ready" THEN pc' = "read" /\ ret' = ret
            ELSE IF outcome = "timeout" THEN pc' = "draw" /\ ret' = ret
            ELSE Fail("poll")
         /\ iter_end' = (IF outcome = "timeout" THEN "timeout" ELSE iter_end)
    /\ UNCHANGED <<velocity_fraction, log, chart_mode, alt_screen, raw_mode,
                   metrics_csv, plot_png, calls, held, steps, stopped>>
    /\ UNCHANGED <<main_vars, script, kin>>

\* event::read()? fails, or delivers an event that is no key (resize, mouse..)
ReadOther ==
    /\ pc = "read"
    /\ ~held
    /\ \E ok \in BOOLEAN :
         /\ IF ok THEN pc' = "draw" /\ ret' = ret ELSE Fail("read")
         /\ iter_end' = (IF ok THEN "other" ELSE iter_end)
    /\ UNCHANGED <<velocity_fraction, log, chart_mode, alt_screen, raw_mode,
                   metrics_csv, plot_png, calls, held, steps, stopped>>
    /\ UNCHANGED <<main_vars, script, kin>>

\* a Left arm that takes its sample only when the velocity fraction has changed
KeyLeftOnChange ==
    /\ pc = "read"
    /\ StepAllowed /\ ~held
    /\ velocity_fraction' = DecreaseVelocity(velocity_fraction)
    /\ log' = IF velocity_fraction' = velocity_fraction THEN log
              ELSE push(log, snapshot(velocity_fraction', ProperTime, ProperLength))
    /\ steps' = Append(steps, "Left")
    /\ pc' = "draw"
    /\ UNCHANGED <<chart_mode, alt_screen, raw_mode, metrics_csv, plot_png, calls,
                   ret, held, stopped>>
    /\ iter_end' = "key"
    /\ UNCHANGED <<main_vars, script, kin>>

\* KeyCode::Left
KeyLeft ==
    /\ pc = "read"
    /\ StepAllowed /\ ~held
    /\ velocity_fraction' = DecreaseVelocity(velocity_fraction)
    /\ log' = push(log, snapshot(velocity_fraction', ProperTime, ProperLength))
    /\ steps' = Append(steps, "Left")
    /\ pc' = "draw"
    /\ UNCHANGED <<chart_mode, alt_screen, raw_mode, metrics_csv, plot_png, calls,
                   ret, held, stopped>>
    /\ iter_end' = "key"
    /\ UNCHANGED <<main_vars, script, kin>>

\* KeyCode::Right
KeyRight ==
    /\ pc = "read"
    /\ StepAllowed
    /\ velocity_fraction' = IncreaseVelocity(velocity_fraction)
    /\ log' = push(log, snapshot(velocity_fraction', ProperTime, ProperLength))
    /\ steps' = Append(steps, "Right")
    /\ held' = (held /\ Len(log') < RampLen)
    /\ pc' = "draw"
    /\ UNCHANGED <<chart_mode, alt_screen, raw_mode, metrics_csv, plot_png, calls,
                   ret, stopped>>
    /\ iter_end' = "key"
    /\ UNCHANGED <<main_vars, script, kin>>

\* a chart key that also takes a sample
KeyChartSampling ==
    /\ pc = "read"
    /\ ~held
    /\ \E mode \in ChartModes : chart_mode' = mode
    /\ log' = push(log, snapshot(velocity_fraction, ProperTime, ProperLength))
    /\ pc' = "draw"
    /\ UNCHANGED <<velocity_fraction, alt_screen, raw_mode, metrics_csv,
                   plot_png, calls, ret, held, steps, stopped>>
    /\ iter_end' = "key"
    /\ UNCHANGED <<main_vars, script, kin>>

\* Char('a'), Char('t'), Char('l'), Char('g')
KeyChart ==
    /\ pc = "read"
    /\ ~held
    /\ \E mode \in ChartModes : chart_mode' = mode
    /\ pc' = "draw"
    /\ UNCHANGED <<velocity_fraction, log, alt_screen, raw_mode, metrics_csv,
                   plot_png, calls, ret, held, steps, stopped>>
    /\ iter_end' = "key"
    /\ UNCHANGED <<main_vars, script, kin>>

\* any other key: the `_ => {}` arm
KeyIgnored ==
    /\ pc = "read"
    /\ ~held
    /\ pc' = "draw"
    /\ UNCHANGED <<velocity_fraction, log, chart_mode, alt_screen, raw_mode,
                   metrics_csv, plot_png, calls, ret, held, steps, stopped>>
    /\ iter_end' = "ignored"
    /\ UNCHANGED <<main_vars, script, kin>>

\* a stop key that is noted and not acted on: the loop goes on
KeyStopIgnored ==
    /\ pc = "read"
    /\ ~held /\ Len(log) <= MaxLog
    /\ pc' = "draw"
    /\ stopped' = TRUE
    /\ UNCHANGED <<velocity_fraction, log, chart_mode, alt_screen, raw_mode,
                   metrics_csv, plot_png, calls, ret, held, steps>>
    /\ iter_end' = "key"
    /\ UNCHANGED <<main_vars, script, kin>>

\* a stop arm that exports first: the terminal is not restored before it
KeyStopExportFirst ==
    /\ pc = "read"
    /\ ~held /\ Len(log) <= MaxLog
    /\ pc' = "export_csv"
    /\ stopped' = TRUE
    /\ UNCHANGED <<velocity_fraction, log, chart_mode, alt_screen, raw_mode,
                   metrics_csv, plot_png, calls, ret, held, steps>>
    /\ iter_end' = "key"
    /\ UNCHANGED <<main_vars, script, kin>>

\* Char('q') | Esc: the arm begins
KeyStop ==
    /\ pc = "read"
    /\ ~held /\ Len(log) <= MaxLog
    /\ pc' = "disable_raw_mode"
    /\ stopped' = TRUE
    /\ UNCHANGED <<velocity_fraction, log, chart_mode, alt_screen, raw_mode,
                   metrics_csv, plot_png, calls, ret, held, steps>>
    /\ iter_end' = "key"
    /\ UNCHANGED <<main_vars, script, kin>>

DisableRawMode ==
    /\ pc = "disable_raw_mode"
    /\ \E ok \in BOOLEAN :
         IF ok THEN raw_mode' = FALSE /\ pc' = "LeaveAlternateScreen" /\ ret' = ret
         ELSE raw_mode' = raw_mode /\ Fail("disable_raw_mode")
    /\ UNCHANGED <<velocity_fraction, log, chart_mode, alt_screen, metrics_csv,
                   plot_png, calls, held, steps, stopped>>
    /\ iter_end' = iter_end
    /\ UNCHANGED <<main_vars, script, kin>>

LeaveAlternateScreen ==
    /\ pc = "LeaveAlternateScreen"
    /\ \E ok \in BOOLEAN :
         IF ok THEN alt_screen' = FALSE /\ pc' = "show_cursor" /\ ret' = ret
         ELSE alt_screen' = alt_screen /\ Fail("LeaveAlternateScreen")
    /\ UNCHANGED <<velocity_fraction, log, chart_mode, raw_mode, metrics_csv,
                   plot_png, calls, held, steps, stopped>>
    /\ iter_end' = iter_end
    /\ UNCHANGED <<main_vars, script, kin>>

ShowCursor ==
    /\ pc = "show_cursor"
    /\ \E ok \in BOOLEAN :
         IF ok THEN pc' = "export_csv" /\ ret' = ret ELSE Fail("show_cursor")
    /\ UNCHANGED <<velocity_fraction, log, chart_mode, alt_screen, raw_mode,
                   metrics_csv, plot_png, calls, held, steps, stopped>>
    /\ iter_end' = iter_end
    /\ UNCHANGED <<main_vars, script, kin>>

\* the result of the call dropped (let _ = ..): start goes on as if it were Ok
ExportFailedIgnored(op) ==
    /\ pc' = (IF op = "export_csv" THEN "plot_results" ELSE "returned")
    /\ ret' = (IF op = "export_csv" THEN ret ELSE Ok)

\* `?` on export_csv(&log) and on plot_results(&log): as on any other call
ExportFailed(op) == Fail(op)

\* export_csv(&log)?: File::create truncates or creates metrics.csv
CsvCreate ==
    /\ pc = "export_csv"
    /\ calls' = [calls EXCEPT !.export_csv = @ + 1]
    /\ \E ok \in BOOLEAN :
         IF ok THEN /\ metrics_csv' = [exists |-> TRUE, lines |-> <<>>]
                    /\ pc' = "csv_header"
                    /\ ret' = ret
         ELSE metrics_csv' = metrics_csv /\ ExportFailed("export_csv")
    /\ UNCHANGED <<velocity_fraction, log, chart_mode, alt_screen, raw_mode,
                   plot_png, held, steps, stopped>>
    /\ iter_end' = iter_end
    /\ UNCHANGED <<main_vars, script, kin>>

CsvHeader ==
    /\ pc = "csv_header"
    /\ \E ok \in BOOLEAN :
         IF ok THEN /\ metrics_csv' = [metrics_csv EXCEPT !.lines = Append(@, Header)]
                    /\ pc' = "csv_rows"
                    /\ ret' = ret
         ELSE metrics_csv' = metrics_csv /\ ExportFailed("export_csv")
    /\ UNCHANGED <<velocity_fraction, log, chart_mode, alt_screen, raw_mode,
                   plot_png, calls, held, steps, stopped>>
    /\ iter_end' = iter_end
    /\ UNCHANGED <<main_vars, script, kin>>

\* for dp in log { writeln!(..)? }: the next DataPoint, or the loop ends and
\* export_csv returns Ok
CsvRows ==
    /\ pc = "csv_rows"
    /\ LET i == Len(metrics_csv.lines)
       IN  IF i > Len(log)
           THEN /\ pc' = "plot_results"
                /\ UNCHANGED <<metrics_csv, ret>>
           ELSE \E ok \in BOOLEAN :
                  IF ok THEN /\ metrics_csv' = [metrics_csv EXCEPT
                                                  !.lines = Append(@, FormatRow(log[i]))]
                             /\ UNCHANGED <<pc, ret>>
                  ELSE metrics_csv' = metrics_csv /\ ExportFailed("export_csv")
    /\ UNCHANGED <<velocity_fraction, log, chart_mode, alt_screen, raw_mode,
                   plot_png, calls, held, steps, stopped>>
    /\ iter_end' = iter_end
    /\ UNCHANGED <<main_vars, script, kin>>

\* plot_results(&log)? with the break left out: the loop goes on
PlotResultsNoBreak ==
    /\ pc = "plot_results"
    /\ calls' = [calls EXCEPT !.plot_results = @ + 1]
    /\ \E ok \in BOOLEAN :
         IF ok THEN /\ plot_png' = [exists |-> TRUE,
                                    series |-> [i \in 1..Len(log) |->
                                       <<log[i].velocity_fraction, log[i].dilated_time,
                                         log[i].contracted_length, log[i].gamma>>]]
                    /\ pc' = "draw"
                    /\ ret' = ret
         ELSE plot_png' = plot_png /\ ExportFailed("plot_results")
    /\ UNCHANGED <<velocity_fraction, log, chart_mode, alt_screen, raw_mode,
                   metrics_csv, held, steps, stopped>>
    /\ iter_end' = iter_end
    /\ UNCHANGED <<main_vars, script, kin>>

\* plot_results(&log)?; break; Ok(())
PlotResults ==
    /\ pc = "plot_results"
    /\ calls' = [calls EXCEPT !.plot_results = @ + 1]
    /\ \E ok \in BOOLEAN :
         IF ok THEN /\ plot_png' = [exists |-> TRUE,
                                    series |-> [i \in 1..Len(log) |->
                                       <<log[i].velocity_fraction, log[i].dilated_time,
                                         log[i].contracted_length, log[i].gamma>>]]
                    /\ pc' = "returned"
                    /\ ret' = Ok
         ELSE plot_png' = plot_png /\ ExportFailed("plot_results")
    /\ UNCHANGED <<velocity_fraction, log, chart_mode, alt_screen, raw_mode,
                   metrics_csv, held, steps, stopped>>
    /\ iter_end' = iter_end
    /\ UNCHANGED <<main_vars, script, kin>>

Next ==
    \/ Setup
    \/ Draw
    \/ Poll
    \/ ReadOther
    \/ KeyLeft
    \/ KeyRight
    \/ KeyChart
    \/ KeyIgnored
    \/ KeyStop
    \/ DisableRawMode
    \/ LeaveAlternateScreen
    \/ ShowCursor
    \/ CsvCreate
    \/ CsvHeader
    \/ CsvRows
    \/ PlotResults

Spec == Init /\ [][Next]_vars

(***************************************************************************)
(* Fair runs with no key held.  The program takes its next step whenever   *)
(* it has one (weak fairness for each step of start); the user's stop key  *)
(* is delivered fairly: a poll that keeps being called does not time out   *)
(* for ever, and reads that keep happening do not for ever deliver other   *)
(* events than the stop key (strong fairness for these two).  Setup is     *)
(* enabled exactly where pc = "setup" and CsvRows exactly where            *)
(* pc = "csv_rows": their weak fairness is written with these conditions.  *)
(***************************************************************************)
PollReady == Poll /\ pc' = "read"

\* no key is held
InitFree == Init /\ ~held

FairSpec ==
    /\ InitFree
    /\ [][Next]_vars
    /\ (<>[](pc = "setup") => []<><<Setup>>_vars)
    /\ WF_vars(Draw)
    /\ SF_vars(PollReady) /\ SF_vars(KeyStop)
    /\ WF_vars(DisableRawMode) /\ WF_vars(LeaveAlternateScreen)
    /\ WF_vars(ShowCursor)
    /\ WF_vars(CsvCreate) /\ WF_vars(CsvHeader)
    /\ (<>[](pc = "csv_rows") => []<><<CsvRows>>_vars)
    /\ WF_vars(PlotResults)

(***************************************************************************)
(* main: the loop of main.rs, which keeps no log and exports nothing       *)
(***************************************************************************)
MainFail(op) ==
    /\ m_pc' = "returned"
    /\ m_ret' = Err(op)

\* if velocity_fraction < 0.99 { velocity_fraction += 0.01; }
MainIncrease(vf) == IF F64Lt(vf, MaxVelocity) THEN F64Add(vf, Increment) ELSE vf

\* if velocity_fraction > 0.0 { velocity_fraction -= 0.01; }
MainDecrease(vf) == IF F64Lt(MinVelocity, vf) THEN F64Sub(vf, Increment) ELSE vf

MainSetup ==
    /\ m_pc = "setup"
    /\ \E outcome \in {"ok", "enable_raw_mode", "Terminal::new"} :
         /\ m_raw_mode' = (outcome # "enable_raw_mode")
         /\ IF outcome = "ok" THEN m_pc' = "draw" /\ m_ret' = m_ret
            ELSE MainFail(outcome)
    /\ UNCHANGED m_velocity_fraction
    /\ UNCHANGED <<tui_vars, script, kin>>

MainDraw ==
    /\ m_pc = "draw"
    /\ \E ok \in BOOLEAN :
         IF ok THEN m_pc' = "poll" /\ m_ret' = m_ret ELSE MainFail("draw")
    /\ UNCHANGED <<m_velocity_fraction, m_raw_mode>>
    /\ UNCHANGED <<tui_vars, script, kin>>

MainPoll ==
    /\ m_pc = "poll"
    /\ \E outcome \in {"ready", "timeout", "poll"} :
         IF outcome = "ready" THEN m_pc' = "read" /\ m_ret' = m_ret
         ELSE IF outcome = "timeout" THEN m_pc' = "draw" /\ m_ret' = m_ret
         ELSE MainFail("poll")
    /\ UNCHANGED <<m_velocity_fraction, m_raw_mode>>
    /\ UNCHANGED <<tui_vars, script, kin>>

MainReadOther ==
    /\ m_pc = "read"
    /\ \E ok \in BOOLEAN :
         IF ok THEN m_pc' = "draw" /\ m_ret' = m_ret ELSE MainFail("read")
    /\ UNCHANGED <<m_velocity_fraction, m_raw_mode>>
    /\ UNCHANGED <<tui_vars, script, kin>>

MainKeyRight ==
    /\ m_pc = "read"
    /\ m_velocity_fraction' = MainIncrease(m_velocity_fraction)
    /\ m_pc' = "draw"
    /\ UNCHANGED <<m_raw_mode, m_ret>>
    /\ UNCHANGED <<tui_vars, script, kin>>

MainKeyLeft ==
    /\ m_pc = "read"
    /\ m_velocity_fraction' = MainDecrease(m_velocity_fraction)
    /\ m_pc' = "draw"
    /\ UNCHANGED <<m_raw_mode, m_ret>>
    /\ UNCHANGED <<tui_vars, script, kin>>

MainKeyIgnored ==
    /\ m_pc = "read"
    /\ m_pc' = "draw"
    /\ UNCHANGED <<m_velocity_fraction, m_raw_mode, m_ret>>
    /\ UNCHANGED <<tui_vars, script, kin>>

\* Char('q'): the arm begins
MainKeyQuit ==
    /\ m_pc = "read"
    /\ m_pc' = "disable_raw_mode"
    /\ UNCHANGED <<m_velocity_fraction, m_raw_mode, m_ret>>
    /\ UNCHANGED <<tui_vars, script, kin>>

MainDisableRawMode ==
    /\ m_pc = "disable_raw_mode"
    /\ \E ok \in BOOLEAN :
         IF ok THEN m_raw_mode' = FALSE /\ m_pc' = "show_cursor" /\ m_ret' = m_ret
         ELSE m_raw_mode' = m_raw_mode /\ MainFail("disable_raw_mode")
    /\ UNCHANGED m_velocity_fraction
    /\ UNCHANGED <<tui_vars, script, kin>>

\* terminal.show_cursor()?; break; Ok(())
MainShowCursor ==
    /\ m_pc = "show_cursor"
    /\ \E ok \in BOOLEAN :
         IF ok THEN m_pc' = "returned" /\ m_ret' = Ok ELSE MainFail("show_cursor")
    /\ UNCHANGED <<m_velocity_fraction, m_raw_mode>>
    /\ UNCHANGED <<tui_vars, script, kin>>

MainNext ==
    \/ MainSetup
    \/ MainDraw
    \/ MainPoll
    \/ MainReadOther
    \/ MainKeyRight
    \/ MainKeyLeft
    \/ MainKeyIgnored
    \/ MainKeyQuit
    \/ MainDisableRawMode
    \/ MainShowCursor

SpecMain == Init /\ [][MainNext]_vars

(***************************************************************************)
(* The kinematics functions on their own.  A caller hands velocity         *)
(* fractions of [0, 1) to lorentz_factor in increasing order, each call    *)
(* at most KinWindow places further in KinInputs than the call before, so  *)
(* that every two inputs that close are compared; and lengths and          *)
(* velocities to length_contraction.  KinInputs holds 0.0, two fractions   *)
(* so small that their square is lost against 1.0, the fractions 0.01 to   *)
(* 0.99, 0.999999, and the two largest f64 below 1.0.                      *)
(***************************************************************************)
KinWindow == 3

KinInputs ==
    <<F64Zero, Lit(1, 2^30), Lit(1, 10^8)>>
    \o [k \in 1..99 |-> Lit(k, 100)]
    \o <<Lit(999999, 1000000),
         Fin(0, BSub(BShl(<<1>>, MantBits), <<2>>), -MantBits),
         Fin(0, BSub(BShl(<<1>>, MantBits), <<1>>), -MantBits)>>

\* KinInputs[j] is one of 0.00, 0.01, .., 0.99
OnGrid(j) == j = 1 \/ (4 <= j /\ j <= 102)

KinLengths == <<ProperLength, One, Lit(1, 3), Lit(1, 10^9)>>

CallLorentzFactor ==
    /\ \E j \in (kin.i + 1)..Min2(kin.i + KinWindow, Len(KinInputs)) :
         kin' = [call |-> "lorentz_factor", i |-> j, v |-> j,
                 gamma |-> lorentz_factor(F64Mul(KinInputs[j], C)),
                 prev |-> kin.i, prev_gamma |-> kin.gamma,
                 length |-> F64Zero, out |-> F64Zero]
    /\ UNCHANGED <<tui_vars, main_vars, script>>

CallLengthContraction ==
    /\ \E n \in 1..Len(KinLengths), j \in {1, 63} :
         kin' = [call |-> "length_contraction", i |-> 0, v |-> j,
                 gamma |-> F64Zero, prev |-> 0, prev_gamma |-> F64Zero,
                 length |-> KinLengths[n],
                 out |-> length_contraction(KinLengths[n],
                                            F64Mul(KinInputs[j], C))]
    /\ UNCHANGED <<tui_vars, main_vars, script>>

KinNext ==
    \/ CallLorentzFactor
    \/ CallLengthContraction

SpecKin == InitFree /\ [][KinNext]_vars

(***************************************************************************)
(* Properties                                                              *)
(***************************************************************************)
\* 0.0 <= vf <= 0.99
InRange(vf) == F64Le(MinVelocity, vf) /\ F64Le(vf, MaxVelocity)

\* |vf * C| < C: the argument the loops pass to lorentz_factor and to
\* length_contraction is inside their domain
BelowC(vf) == F64Lt(F64Abs(F64Mul(vf, C)), C)

\* C1: in every reachable state of the interactive loop the velocity fraction
\* lies in [0.0, 0.99], and so every velocity vf * C handed to lorentz_factor
\* and length_contraction has |v| < C.  Stated of both loops of the source,
\* tui::start and main.  The loop of main leaves the range.
C1_VelocityInRange ==
    /\ InRange(velocity_fraction) /\ BelowC(velocity_fraction)
    /\ InRange(m_velocity_fraction) /\ BelowC(m_velocity_fraction)

\* What does hold in main: the velocity stays below C in magnitude
MainBelowC == BelowC(m_velocity_fraction)

\* What does hold in tui::start: the range and the domain
StartVelocityInRange == InRange(velocity_fraction) /\ BelowC(velocity_fraction)

\* the step start processes in this transition is the key k
Stepped(k) == steps' = Append(steps, k)

\* x where it is at most hi, else hi; x where it is at least lo, else lo
AtMost(x, hi) == IF F64Lt(hi, x) THEN hi ELSE x
AtLeast(x, lo) == IF F64Lt(x, lo) THEN lo ELSE x

FiveUpTwoDown == <<"Right", "Right", "Right", "Right", "Right", "Left", "Left">>

\* C2: each increase (Right) sets the velocity fraction to
\* min(current + 0.01, 0.99), each decrease (Left) sets it to
\* max(current - 0.01, 0.0); five increases and then two decreases from 0.0
\* end at 0.03.
C2_StepRule ==
    [][ /\ Stepped("Right") =>
             velocity_fraction' =
                 AtMost(F64Add(velocity_fraction, Lit(1, 100)), Lit(99, 100))
        /\ Stepped("Left") =>
             velocity_fraction' =
                 AtLeast(F64Sub(velocity_fraction, Lit(1, 100)), Lit(0, 100))
        /\ steps' = FiveUpTwoDown => velocity_fraction' = Lit(3, 100) ]_vars

\* five increases and two decreases have been processed and the velocity
\* fraction is 0.03
C2_Witness == steps = FiveUpTwoDown /\ velocity_fraction = Lit(3, 100)

\* start has created its log: it is past its setup, which did not fail
Started ==
    /\ pc # "setup"
    /\ ret.from \notin {"EnterAlternateScreen", "enable_raw_mode", "Terminal::new"}

\* C3: the log holds one sample, taken at velocity fraction 0.0, before any
\* input is processed, and one more for each step key processed: its length
\* is 1 + the number of step keys processed so far; after five increases and
\* two decreases it holds 8 samples.
C3_LogLength ==
    Started =>
        /\ Len(log) = 1 + Len(steps)
        /\ log[1].velocity_fraction = Lit(0, 100)
        /\ steps = <<>> => Len(log) = 1
        /\ steps = FiveUpTwoDown => Len(log) = 8

\* five increases and two decreases have been processed, and the log holds
\* 8 samples
C3_Witness == Started /\ steps = FiveUpTwoDown /\ Len(log) = 8

\* C4: the log is append-only.  No step removes, reorders or changes a
\* sample: the log before a step is a prefix of the log after it (and so the
\* log at any earlier point is a prefix of the log at any later point); the
\* sample of a step key goes to the end, so the samples are in the order in
\* which the step keys were processed.
C4_AppendOnly ==
    [][ /\ Len(log) <= Len(log')
        /\ \A i \in 1..Len(log) : log'[i] = log[i]
        /\ \A k \in {"Left", "Right"} :
             Stepped(k) =>
                 /\ Len(log') = Len(log) + 1
                 /\ log'[Len(log')].velocity_fraction = velocity_fraction' ]_vars

\* three step keys have been processed, the samples of the first two differ,
\* and the samples before the last are where they were
C4_Witness ==
    /\ Len(steps) = 3 /\ Len(log) = 4
    /\ steps[1] = "Right" /\ steps[2] = "Left"
    /\ log[1].velocity_fraction = Lit(0, 100)
    /\ log[2].velocity_fraction = Lit(1, 100)
    /\ log[3].velocity_fraction = Lit(0, 100)
    /\ log[4].velocity_fraction = velocity_fraction

\* the velocity fraction that the first n of the step keys ks make of 0.0
RECURSIVE VelocityAfter(_, _)
VelocityAfter(ks, n) ==
    IF n = 0 THEN Lit(0, 100)
    ELSE IF ks[n] = "Right"
         THEN AtMost(F64Add(VelocityAfter(ks, n - 1), Lit(1, 100)), Lit(99, 100))
         ELSE AtLeast(F64Sub(VelocityAfter(ks, n - 1), Lit(1, 100)), Lit(0, 100))

\* C5: a display-switch key changes the chart mode and nothing else of the
\* run: the velocity fraction, the log and the files stay as they are; and
\* what a run exports is what the step keys alone make of it, whatever
\* display-switch keys came between them: one sample for the start and one
\* for each step key, at the velocities the step keys lead through.
C5_DisplaySwitch ==
    /\ [][ chart_mode' # chart_mode =>
             /\ velocity_fraction' = velocity_fraction
             /\ log' = log
             /\ steps' = steps
             /\ metrics_csv' = metrics_csv
             /\ plot_png' = plot_png
             /\ ret' = ret ]_vars
    /\ [](ret = Ok =>
             /\ Len(log) = 1 + Len(steps)
             /\ Len(plot_png.series) = Len(log)
             /\ Len(metrics_csv.lines) = 1 + Len(log)
             /\ \A i \in 1..Len(log) :
                  /\ log[i].velocity_fraction = VelocityAfter(steps, i - 1)
                  /\ plot_png.series[i][1] = log[i].velocity_fraction
                  /\ metrics_csv.lines[i + 1][1] = Format(log[i].velocity_fraction, 3))

\* a run has exported three samples, and a display-switch key was processed
C5_Witness ==
    /\ ret = Ok
    /\ chart_mode # "All"
    /\ Len(steps) = 2
    /\ Len(plot_png.series) = 3

\* start is in its loop, where samples are taken
Sampling == pc \in {"draw", "poll", "read"}

\* export_csv has begun; export_csv has returned Ok
CsvBegun == calls.export_csv > 0
CsvDone == pc = "plot_results" \/ calls.plot_results > 0

\* C6: a run goes start, sampling, stop, export, end.  The two sinks are
\* called only after the stop key was read, first the CSV and then the plot,
\* each at most once and with the complete log: the file it leaves has one
\* entry for every sample of the log.  Once the export has begun no sample is
\* appended and the loop is not entered again.
C6_ExportOnce ==
    /\ [](/\ calls.export_csv <= 1 /\ calls.plot_results <= 1
          /\ (CsvBegun \/ metrics_csv.exists \/ plot_png.exists) => stopped
          /\ calls.plot_results > 0 => CsvBegun
          /\ stopped => ~Sampling
          /\ CsvDone => Len(metrics_csv.lines) = 1 + Len(log)
          /\ plot_png.exists =>
                /\ Len(plot_png.series) = Len(log)
                /\ \A i \in 1..Len(log) :
                     plot_png.series[i] =
                         <<log[i].velocity_fraction, log[i].dilated_time,
                           log[i].contracted_length, log[i].gamma>>
          /\ ret = Ok => calls.export_csv = 1 /\ calls.plot_results = 1)
    /\ [][CsvBegun => /\ log' = log
                      /\ velocity_fraction' = velocity_fraction
                      /\ ~Sampling' ]_vars

\* a run has ended after its stop key, with four samples given to each sink
C6_Witness ==
    /\ stopped /\ pc = "returned" /\ ret = Ok
    /\ calls.export_csv = 1 /\ calls.plot_results = 1
    /\ Len(log) = 4
    /\ Len(metrics_csv.lines) = 5 /\ Len(plot_png.series) = 4

\* C7: the stop key is honoured.  Once it is read the loop is not entered
\* again: no further event is read, no sample is appended, velocity and chart
\* mode stay; and start returns, with the export done or failed.  When the
\* stop key is delivered fairly every run ends.
C7_StopHonoured ==
    /\ [][stopped => /\ stopped'
                     /\ ~Sampling'
                     /\ log' = log
                     /\ steps' = steps
                     /\ velocity_fraction' = velocity_fraction
                     /\ chart_mode' = chart_mode ]_vars
    /\ stopped ~> pc = "returned"
    /\ <>(pc = "returned")

\* a run has returned after its stop key, three step keys before it
C7_Witness == stopped /\ pc = "returned" /\ Len(steps) = 3 /\ Len(log) = 4

\* a step in which export_csv fails: it is under way and adds nothing to its
\* file, and it is not at the end of its rows; a step in which plot_results
\* fails: it is called and leaves no plot
CsvFails ==
    /\ pc \in {"export_csv", "csv_header", "csv_rows"}
    /\ metrics_csv' = metrics_csv
    /\ ~(pc = "csv_rows" /\ Len(metrics_csv.lines) > Len(log))
PlotFails == pc = "plot_results" /\ plot_png' = plot_png

\* C8: a failure of an export sink is fatal and is handed to the caller.  If
\* export_csv or plot_results fails, start returns that error and not Ok;
\* the failed call is not made again, the plot is not made after a failed
\* CSV export, and the loop is not entered again: nothing happens after the
\* return.
C8_ExportFailure ==
    /\ [][ /\ CsvFails => /\ pc' = "returned"
                          /\ ret' = Err("export_csv")
                          /\ calls' = [export_csv |-> 1, plot_results |-> 0]
           /\ PlotFails => /\ pc' = "returned"
                           /\ ret' = Err("plot_results")
                           /\ calls' = [export_csv |-> 1, plot_results |-> 1]
           /\ ret.tag = "Err" => FALSE ]_vars
    /\ [](/\ ret.from \in {"export_csv", "plot_results"} =>
                ret.tag = "Err" /\ pc = "returned" /\ stopped
          /\ ret = Ok => /\ Len(metrics_csv.lines) = 1 + Len(log)
                         /\ plot_png.exists)

\* export_csv has failed after the header and one row of three: start has
\* returned its error, and plot_results was not called
C8_Witness ==
    /\ ret = Err("export_csv") /\ pc = "returned"
    /\ Len(log) = 3 /\ Len(metrics_csv.lines) = 2
    /\ calls.plot_results = 0 /\ ~plot_png.exists

\* the columns of metrics.csv in their order, and the decimals of each
Columns ==
    <<"velocity_fraction", "gamma", "proper_time", "dilated_time",
      "proper_length", "contracted_length">>
Decimals == <<3, 6, 3, 3, 3, 3>>

\* line n of the file is what export_csv writes n-th for this log: the
\* header, or the fields of sample n - 1 that the header names, column by
\* column
CsvLine(lines, n) ==
    IF n = 1 THEN lines[1] = Columns
    ELSE /\ Len(lines[n]) = Len(Columns)
         /\ \A j \in 1..Len(Columns) :
              lines[n][j] = Format(log[n - 1][Columns[j]], Decimals[j])

\* C9: metrics.csv begins with the header row, the six column names in
\* their order, and then holds one row for each sample in the order of the
\* log: row i has the fields of the i-th sample.  Every step that writes to
\* the file adds one line after those it holds, the header first and then
\* the row of the next sample; once export_csv has returned Ok the number of
\* data rows is the length of the log.
C9_CsvContent ==
    /\ [][ metrics_csv'.lines # metrics_csv.lines =>
             /\ Len(metrics_csv'.lines) = Len(metrics_csv.lines) + 1
             /\ \A i \in 1..Len(metrics_csv.lines) :
                  metrics_csv'.lines[i] = metrics_csv.lines[i]
             /\ CsvLine(metrics_csv'.lines, Len(metrics_csv'.lines)) ]_vars
    /\ [](/\ Len(metrics_csv.lines) <= 1 + Len(log)
          /\ metrics_csv.lines # <<>> => metrics_csv.lines[1] = Columns
          /\ CsvDone => Len(metrics_csv.lines) = 1 + Len(log))

\* export_csv has returned Ok for a log of three samples, the second taken
\* at 0.01: the file has four lines, the third begins 0.010,1.000050
C9_Witness ==
    /\ CsvDone
    /\ Len(log) = 3 /\ Len(metrics_csv.lines) = 4
    /\ log[2].velocity_fraction = Lit(1, 100)
    /\ metrics_csv.lines[3][1] = Formatted("num", FALSE, 0, 10)
    /\ metrics_csv.lines[3][2] = Formatted("num", FALSE, 1, 50)

\* the fields of dp are those of its own velocity fraction: gamma is
\* lorentz_factor(velocity_fraction * C), the proper time is 10.0 and the
\* proper length 100.0, dilated_time is proper_time * gamma and
\* contracted_length is proper_length / gamma
SampleOfItsVelocity(dp) ==
    /\ dp.proper_time = Lit(10, 1)
    /\ dp.proper_length = Lit(100, 1)
    /\ dp.gamma = lorentz_factor(F64Mul(dp.velocity_fraction, C))
    /\ dp.dilated_time = F64Mul(dp.proper_time, dp.gamma)
    /\ dp.contracted_length = F64Div(dp.proper_length, dp.gamma)

\* C10: every sample of the log has the proper time 10.0 and the proper
\* length 100.0 of the run, and its other fields follow from its own
\* velocity fraction alone: every sample that a step puts into the log, or
\* changes in it, is the sample of its velocity; and two samples of the log
\* with the same velocity fraction are the same in every field.
C10_SampleFields ==
    /\ [][ \A i \in 1..Len(log') :
             (i > Len(log) \/ log'[i] # log[i]) => SampleOfItsVelocity(log'[i]) ]_vars
    /\ [](\A i, j \in 1..Len(log) :
             log[i].velocity_fraction = log[j].velocity_fraction => log[i] = log[j])

\* the log holds the samples of 0.0, 0.01 and 0.0 again: the first and the
\* third are the same, the second has another gamma
C10_Witness ==
    /\ Len(log) = 3
    /\ log[2].velocity_fraction = Lit(1, 100)
    /\ log[3].velocity_fraction = log[1].velocity_fraction
    /\ log[3] = log[1]
    /\ log[2].gamma # log[1].gamma

\* C11: every sample of the log has gamma >= 1, dilated_time >= proper_time
\* and 0 < contracted_length <= proper_length.
C11_SampleBounds ==
    \A i \in 1..Len(log) :
        /\ F64Le(One, log[i].gamma)
        /\ F64Le(log[i].proper_time, log[i].dilated_time)
        /\ F64Lt(F64Zero, log[i].contracted_length)
        /\ F64Le(log[i].contracted_length, log[i].proper_length)

\* the log holds the sample of 0.0, where the bounds are met with equality,
\* and a sample of 0.99, where they are met strictly
C11_Witness ==
    /\ Len(log) >= 100
    /\ log[1].gamma = Lit(1, 1)
    /\ log[1].contracted_length = log[1].proper_length
    /\ log[100].velocity_fraction = Lit(99, 100)
    /\ F64Lt(Lit(7, 1), log[100].gamma)
    /\ F64Lt(log[100].proper_time, log[100].dilated_time)
    /\ F64Lt(log[100].contracted_length, log[100].proper_length)

\* C12, as it is stated: for all v_frac in [0, 1), lorentz_factor(v_frac * C)
\* is at least 1.0 and strictly increasing in v_frac, lorentz_factor(0) is
\* 1.0 exactly, and length_contraction(L, 0) is L.
C12_StrictlyIncreasing ==
    /\ kin.call = "lorentz_factor" =>
          /\ F64Le(One, kin.gamma)
          /\ kin.prev > 0 => F64Lt(kin.prev_gamma, kin.gamma)
          /\ kin.v = 1 => kin.gamma = One
    /\ (kin.call = "length_contraction" /\ kin.v = 1) => kin.out = kin.length

\* C12, amended: for all v_frac in [0, 1), lorentz_factor(v_frac * C) is at
\* least 1.0 and does not decrease as v_frac grows; it is strictly
\* increasing over the velocity fractions 0.00, 0.01, .., 0.99;
\* lorentz_factor(0) is 1.0 exactly, and length_contraction(L, 0) is L.
C12_NonDecreasing ==
    /\ kin.call = "lorentz_factor" =>
          /\ F64Le(One, kin.gamma)
          /\ kin.prev > 0 => F64Le(kin.prev_gamma, kin.gamma)
          /\ (OnGrid(kin.prev) /\ OnGrid(kin.v)) => F64Lt(kin.prev_gamma, kin.gamma)
          /\ kin.v = 1 => kin.gamma = One
    /\ (kin.call = "length_contraction" /\ kin.v = 1) => kin.out = kin.length

\* lorentz_factor was called for 0.0 and then for 0.01: the first result is
\* 1.0 and the second is greater
C12_Witness ==
    /\ kin.call = "lorentz_factor"
    /\ kin.prev = 1 /\ kin.v = 4
    /\ KinInputs[kin.v] = Lit(1, 100)
    /\ kin.prev_gamma = One /\ F64Lt(One, kin.gamma)

(***************************************************************************)
(* C13.  An iteration of the loop in which the poll times out, or the      *)
(* event read is no key, or the key read matches no arm, leaves the        *)
(* velocity fraction, the display mode and the log as they were and is     *)
(* followed by the next iteration: start goes back to drawing and has not  *)
(* returned.  A poll by itself changes none of the three either, and ends  *)
(* the run only by failing.                                                *)
(***************************************************************************)
NoInput == {"timeout", "other", "ignored"}

C13_NoInputNoChange ==
    [][ /\ iter_end' \in NoInput =>
            /\ velocity_fraction' = velocity_fraction
            /\ chart_mode' = chart_mode
            /\ log' = log
            /\ steps' = steps
            /\ pc' = "draw"
            /\ ret' = Running
        /\ pc = "poll" =>
            /\ velocity_fraction' = velocity_fraction
            /\ chart_mode' = chart_mode
            /\ log' = log
            /\ pc' \in {"draw", "read"} \/ ret' = Err("poll")
      ]_vars

\* the second sample has been taken, the display switched, and the iteration
\* after that has ended in a timeout
C13_Witness ==
    /\ pc = "draw"
    /\ iter_end = "timeout"
    /\ Len(log) = 2
    /\ chart_mode = "LorentzFactor"
    /\ log[2].velocity_fraction = velocity_fraction
    /\ ret = Running

(***************************************************************************)
(* The swept run.  It is non-interactive: it sets up no terminal and waits *)
(* for no event.  It goes through SweepLen evenly spaced velocity          *)
(* fractions, 0.00, 0.01, .. 0.99, takes one sample at each with the       *)
(* program's snapshot and appends it with push; when the points are used   *)
(* up it hands the log to export_csv and plot_results as start does.       *)
(***************************************************************************)
SweepLen == 100

SweepPoints == [n \in 1..SweepLen |-> Lit(n - 1, 100)]

SweptStart ==
    /\ pc = "setup"
    /\ pc' = "sweep"
    /\ UNCHANGED <<velocity_fraction, log, chart_mode, alt_screen, raw_mode,
                   metrics_csv, plot_png, calls, ret, held, steps, stopped,
                   iter_end>>
    /\ UNCHANGED <<main_vars, script, kin>>

SweptStep ==
    /\ pc = "sweep"
    /\ Len(log) < SweepLen
    /\ velocity_fraction' = SweepPoints[Len(log) + 1]
    /\ log' = push(log, snapshot(velocity_fraction', ProperTime, ProperLength))
    /\ UNCHANGED <<pc, chart_mode, alt_screen, raw_mode, metrics_csv, plot_png,
                   calls, ret, held, steps, stopped, iter_end>>
    /\ UNCHANGED <<main_vars, script, kin>>

SweptEnd ==
    /\ pc = "sweep"
    /\ Len(log) >= SweepLen
    /\ pc' = "export_csv"
    /\ UNCHANGED <<velocity_fraction, log, chart_mode, alt_screen, raw_mode,
                   metrics_csv, plot_png, calls, ret, held, steps, stopped,
                   iter_end>>
    /\ UNCHANGED <<main_vars, script, kin>>

SweptNext ==
    \/ SweptStart
    \/ SweptStep
    \/ SweptEnd
    \/ CsvCreate
    \/ CsvHeader
    \/ CsvRows
    \/ PlotResults

SpecSwept == InitFree /\ [][SweptNext]_vars

(***************************************************************************)
(* C14.  The swept run over the 100 points 0.00, 0.01, .. 0.99 takes       *)
(* exactly 100 samples, the i-th at the i-th point: while it sweeps, the   *)
(* log holds one sample for each point gone through; once it has left the  *)
(* sweep the log has 100 samples and keeps them.  From each sample to the  *)
(* next the velocity fraction increases and gamma increases, both          *)
(* strictly.                                                               *)
(***************************************************************************)
SweepOver == pc \notin {"setup", "sweep"}

C14_Swept ==
    /\ Len(log) <= SweepLen
    /\ SweepOver => Len(log) = SweepLen
    /\ \A i \in 1..Len(log) : log[i].velocity_fraction = SweepPoints[i]
    /\ \A i \in 1..(Len(log) - 1) :
         /\ F64Lt(log[i].velocity_fraction, log[i + 1].velocity_fraction)
         /\ F64Lt(log[i].gamma, log[i + 1].gamma)

\* the sweep is over and the log delivered: 100 samples from 0.00 to 0.99
C14_Witness ==
    /\ pc = "returned" /\ ret = Ok
    /\ Len(log) = 100
    /\ log[1].velocity_fraction = F64Zero
    /\ log[1].gamma = One
    /\ log[100].velocity_fraction = MaxVelocity
    /\ F64Lt(log[99].gamma, log[100].gamma)
    /\ Len(metrics_csv.lines) = 101

(***************************************************************************)
(* The scripted run.  Non-interactive as the swept run is.  The caller     *)
(* supplies a list of velocity fractions; the run looks at them in order,  *)
(* takes a sample (snapshot, push) at each one that lies in [0, 1) and     *)
(* passes over the others, and hands the log to the two export functions   *)
(* when the list is used up.  The lists followed have up to MaxScript      *)
(* values out of ScriptValues.                                             *)
(***************************************************************************)
MaxScript == 4

ScriptValues == {Lit(3, 10), Lit(3, 2), F64Neg(Lit(1, 5)), Lit(9, 10), One}

Scripts == UNION {[1..n -> ScriptValues] : n \in 0..MaxScript}

\* 0 <= x < 1
InUnit(x) == F64Le(F64Zero, x) /\ F64Lt(x, One)

ScriptedStart ==
    /\ pc = "setup"
    /\ \E list \in Scripts : script' = [given |-> list, next |-> 1]
    /\ pc' = "script"
    /\ UNCHANGED <<velocity_fraction, log, chart_mode, alt_screen, raw_mode,
                   metrics_csv, plot_png, calls, ret, held, steps, stopped,
                   iter_end>>
    /\ UNCHANGED <<main_vars, kin>>

ScriptedStep ==
    /\ pc = "script"
    /\ script.next <= Len(script.given)
    /\ IF InUnit(script.given[script.next])
       THEN /\ velocity_fraction' = script.given[script.next]
            /\ log' = push(log, snapshot(velocity_fraction', ProperTime,
                                         ProperLength))
       ELSE UNCHANGED <<velocity_fraction, log>>
    /\ script' = [script EXCEPT !.next = @ + 1]
    /\ UNCHANGED <<pc, chart_mode, alt_screen, raw_mode, metrics_csv, plot_png,
                   calls, ret, held, steps, stopped, iter_end>>
    /\ UNCHANGED <<main_vars, kin>>

ScriptedEnd ==
    /\ pc = "script"
    /\ script.next > Len(script.given)
    /\ pc' = "export_csv"
    /\ UNCHANGED <<velocity_fraction, log, chart_mode, alt_screen, raw_mode,
                   metrics_csv, plot_png, calls, ret, held, steps, stopped,
                   iter_end>>
    /\ UNCHANGED <<main_vars, script, kin>>

ScriptedNext ==
    \/ ScriptedStart
    \/ ScriptedStep
    \/ ScriptedEnd
    \/ CsvCreate
    \/ CsvHeader
    \/ CsvRows
    \/ PlotResults

SpecScripted == InitFree /\ [][ScriptedNext]_vars

(***************************************************************************)
(* C15.  At every point of the scripted run the velocity fractions of the  *)
(* samples in the log are the supplied values gone through so far that lie *)
(* in [0, 1), in the order given, each once: a value outside [0, 1) adds   *)
(* no sample and raises no error (the run fails only where an export       *)
(* fails).  For [0.3, 1.5, -0.2, 0.9] gone through to its end these are    *)
(* exactly 2 samples, for 0.3 then 0.9.                                    *)
(***************************************************************************)
Seen == SubSeq(script.given, 1, script.next - 1)

SampledAt == [i \in 1..Len(log) |-> log[i].velocity_fraction]

Example == <<Lit(3, 10), Lit(3, 2), F64Neg(Lit(1, 5)), Lit(9, 10)>>

C15_Scripted ==
    /\ SampledAt = SelectSeq(Seen, InUnit)
    /\ ret.tag = "Err" => ret.from \in {"export_csv", "plot_results"}
    /\ pc \notin {"setup", "script"} => script.next = Len(script.given) + 1
    /\ (script.given = Example /\ script.next = 5) =>
          SampledAt = <<Lit(3, 10), Lit(9, 10)>>

\* the list of the example gone through and its log delivered
C15_Witness ==
    /\ script = [given |-> Example, next |-> 5]
    /\ pc = "returned" /\ ret = Ok
    /\ Len(log) = 2 /\ Len(metrics_csv.lines) = 3
    /\ log[1].velocity_fraction = Lit(3, 10)
    /\ log[2].velocity_fraction = Lit(9, 10)
    /\ F64Lt(log[1].gamma, log[2].gamma)

(***************************************************************************)
(* C16.  A Left key read while the velocity fraction is 0.0, and a Right   *)
(* key read while it is 0.99, leave the velocity fraction as it is and     *)
(* still append a sample: the log grows by one and its last two samples    *)
(* have the same velocity_fraction.  Every step key appends exactly one    *)
(* sample, whether or not the velocity fraction changes.                   *)
(***************************************************************************)
AtClamp(k) ==
    \/ k = "Left" /\ velocity_fraction = MinVelocity
    \/ k = "Right" /\ velocity_fraction = MaxVelocity

C16_SampleAtClamp ==
    [][\A k \in {"Left", "Right"} :
         Stepped(k) =>
            /\ Len(log') = Len(log) + 1
            /\ SubSeq(log', 1, Len(log)) = log
            /\ log'[Len(log')].velocity_fraction = velocity_fraction'
            /\ AtClamp(k) =>
                 /\ velocity_fraction' = velocity_fraction
                 /\ log'[Len(log')].velocity_fraction
                      = log'[Len(log') - 1].velocity_fraction
      ]_vars

\* Right held down until the velocity fraction is 0.99, and read once more
C16_Witness ==
    /\ Len(steps) = RampLen
    /\ steps[RampLen] = "Right"
    /\ Len(log) = RampLen + 1
    /\ velocity_fraction = MaxVelocity
    /\ log[RampLen].velocity_fraction = MaxVelocity
    /\ log[RampLen + 1].velocity_fraction = MaxVelocity
    /\ log[RampLen + 1] = log[RampLen]

(***************************************************************************)
(* C17.  In every state of the loop the log is non-empty and the           *)
(* velocity_fraction of its last sample is the current velocity fraction,  *)
(* and the velocity fractions of any two consecutive samples differ by at  *)
(* most one increment, 0.01.                                               *)
(***************************************************************************)
StepSize(a, b) == F64Abs(F64Sub(b, a))

C17_WithinOneIncrement ==
    Sampling =>
        /\ log # <<>>
        /\ log[Len(log)].velocity_fraction = velocity_fraction
        /\ \A i \in 1..(Len(log) - 1) :
             F64Le(StepSize(log[i].velocity_fraction,
                            log[i + 1].velocity_fraction), Increment)

(***************************************************************************)
(* C17, amended.  As above, with the distance between consecutive samples  *)
(* at most one increment up to the rounding of the f64 addition or         *)
(* subtraction that made the step: at most 0.01 + 2^-54.  The log only     *)
(* ever grows by one sample at its end, so the bound is stated of each     *)
(* sample as it is appended, against the sample before it.                 *)
(***************************************************************************)
RoundingSlack == F64Mul(Lit(1, 2^27), Lit(1, 2^27))

StepBound == F64Add(Increment, RoundingSlack)

C17_WithinRoundedIncrement ==
    /\ [](Sampling =>
            /\ log # <<>>
            /\ log[Len(log)].velocity_fraction = velocity_fraction)
    /\ [][(log' # log /\ log # <<>>) =>
            /\ log' = Append(log, log'[Len(log')])
            /\ F64Le(StepSize(log[Len(log)].velocity_fraction,
                              log'[Len(log')].velocity_fraction), StepBound)
         ]_vars

\* Right, Right, Right, Left: from 0.03 back to 0.019999999999999997, a step
\* of 0.010000000000000002
C17_Witness ==
    /\ pc = "draw"
    /\ steps = <<"Right", "Right", "Right", "Left">>
    /\ Len(log) = 5
    /\ log[4].velocity_fraction = Lit(3, 100)
    /\ log[5].velocity_fraction = velocity_fraction
    /\ F64Lt(velocity_fraction, Lit(2, 100))
    /\ F64Lt(Increment, StepSize(log[4].velocity_fraction, velocity_fraction))
    /\ F64Le(StepSize(log[4].velocity_fraction, velocity_fraction), StepBound)

(***************************************************************************)
(* C18.  After the stop key the steps come in one order: the terminal is   *)
(* restored (raw mode off, then the alternate screen left, then the cursor *)
(* shown), then export_csv, then plot_results, then start returns Ok.      *)
(* export_csv is called only when the terminal is restored: if a restore   *)
(* step fails start returns its error and neither export is called.        *)
(* plot_results is called only when export_csv has written its whole file. *)
(***************************************************************************)
RestoreSteps == {"disable_raw_mode", "LeaveAlternateScreen", "show_cursor"}

C18_StopOrder ==
    /\ [](/\ CsvBegun => ~raw_mode /\ ~alt_screen /\ stopped
          /\ calls.plot_results > 0 =>
                /\ calls.export_csv = 1
                /\ Len(metrics_csv.lines) = 1 + Len(log)
          /\ ret.from \in RestoreSteps =>
                /\ ret.tag = "Err" /\ pc = "returned" /\ stopped
                /\ calls = [export_csv |-> 0, plot_results |-> 0]
                /\ ~metrics_csv.exists /\ ~plot_png.exists
          /\ ret = Ok => /\ pc = "returned"
                         /\ ~raw_mode /\ ~alt_screen
                         /\ plot_png.exists)
    /\ [][ /\ (raw_mode /\ ~raw_mode') => stopped /\ alt_screen' /\ ~CsvBegun'
           /\ (alt_screen /\ ~alt_screen') => stopped /\ ~raw_mode /\ ~CsvBegun'
           /\ calls'.export_csv # calls.export_csv =>
                 pc = "export_csv" /\ calls.plot_results = 0
           /\ calls'.plot_results # calls.plot_results =>
                 pc = "plot_results" /\ CsvBegun /\ pc' = "returned"
         ]_vars

\* the stop key read after one step: the terminal is restored, export_csv has
\* written its three lines, plot_results is about to be called
C18_Witness ==
    /\ stopped /\ pc = "plot_results"
    /\ ~raw_mode /\ ~alt_screen
    /\ calls = [export_csv |-> 1, plot_results |-> 0]
    /\ Len(log) = 2 /\ Len(metrics_csv.lines) = 3
    /\ ~plot_png.exists

(***************************************************************************)
(* C19.  If terminal.draw, event::poll or event::read fails in the loop,   *)
(* start returns that error in the same step: it has not read the stop     *)
(* key, neither export_csv nor plot_results is called then or later, no    *)
(* file is written, and the samples of the log go nowhere.  The only way   *)
(* to the export is the stop key.                                          *)
(***************************************************************************)
LoopSteps == {"draw", "poll", "read"}

C19_LoopFailure ==
    /\ [][ /\ (Sampling /\ ret' # ret) =>
                /\ ret' = Err(pc)
                /\ pc' = "returned"
                /\ ~stopped'
                /\ log' = log
                /\ calls' = [export_csv |-> 0, plot_results |-> 0]
           /\ (Sampling /\ ~Sampling') => ret' = Err(pc) \/ stopped'
           /\ ret.from \in LoopSteps => FALSE ]_vars
    /\ [](/\ ret.from \in LoopSteps =>
                /\ ret.tag = "Err" /\ pc = "returned"
                /\ ~stopped
                /\ log # <<>>
                /\ calls = [export_csv |-> 0, plot_results |-> 0]
                /\ ~metrics_csv.exists /\ ~plot_png.exists
          /\ (CsvBegun \/ calls.plot_results > 0) => stopped)

\* event::poll has failed with three samples in the log: start has returned
\* the error and no file exists
C19_Witness ==
    /\ ret = Err("poll") /\ pc = "returned"
    /\ Len(log) = 3 /\ ~stopped
    /\ calls = [export_csv |-> 0, plot_results |-> 0]
    /\ ~metrics_csv.exists /\ ~plot_png.exists

====
